---- MODULE Spec2Model ----
(***************************************************************************)
(* ExtensionViewHost (chrome/browser/extensions/extension_view_host.cc):   *)
(* the host of an extension popup, dialog or infobar.  The model keeps the *)
(* host's fields, the observer lists of the WebContents objects it may be  *)
(* associated with, and, for every operation, the calls it makes on its    *)
(* collaborators (the parent Browser, the platform ExtensionView, the      *)
(* RenderViewHost and ExtensionHost::Close).                               *)
(***************************************************************************)
EXTENDS Integers, Sequences, FiniteSets, TLC

\* ------------------------------------------------------------------ bounds
\* Number of WebContents addresses other than the host's own contents.
NumContents == 2
\* Number of document-available callbacks followed (caps the counters).
MaxDocuments == 3

\* --------------------------------------------------------------- constants
NULL == 0
VKEY_ESCAPE == 27

Contents == 1..NumContents
\* host_contents(): the host's own primary WebContents, distinct from Contents.
host_contents == NumContents + 1

VIEW_TYPE_EXTENSION_DIALOG == "VIEW_TYPE_EXTENSION_DIALOG"
VIEW_TYPE_EXTENSION_INFOBAR == "VIEW_TYPE_EXTENSION_INFOBAR"
VIEW_TYPE_EXTENSION_POPUP == "VIEW_TYPE_EXTENSION_POPUP"
\* The host kinds the constructor's DCHECK admits.
ViewTypes ==
  {VIEW_TYPE_EXTENSION_DIALOG, VIEW_TYPE_EXTENSION_INFOBAR, VIEW_TYPE_EXTENSION_POPUP}

\* The toolkits CreateView is compiled for (the #else branch is NOTREACHED).
Toolkits == {"TOOLKIT_VIEWS", "OS_MACOSX", "TOOLKIT_GTK"}

\* The values of params.disposition (WindowOpenDisposition).
Dispositions ==
  {"UNKNOWN", "SUPPRESS_OPEN", "CURRENT_TAB", "SINGLETON_TAB", "NEW_FOREGROUND_TAB",
   "NEW_BACKGROUND_TAB", "NEW_POPUP", "NEW_WINDOW", "SAVE_TO_DISK", "OFF_THE_RECORD",
   "IGNORE_ACTION"}

\* NativeWebKeyboardEvent: its type and windowsKeyCode (87 = VKEY_W).
EventTypes == {"RawKeyDown", "KeyUp", "Char"}
KeyCodes == {VKEY_ESCAPE, 87}
Events == [type : EventTypes, windowsKeyCode : KeyCodes]
NoEvent == [type |-> "none", windowsKeyCode |-> NULL]

\* What Browser::PreHandleKeyboardEvent may answer: its return value and the
\* value it leaves in *is_keyboard_shortcut.
BrowserPreResults == [consumed : BOOLEAN, shortcut : BOOLEAN]
NoBrowserPre == [consumed |-> FALSE, shortcut |-> FALSE]
\* What Browser::OpenURL may return: NULL or the contents of one of its tabs.
browser_tab == NumContents + 2
BrowserOpenResults == {NULL, browser_tab}

VARIABLES
  host_type,                          \* extension_host_type(), fixed at construction
  toolkit,                            \* the toolkit the file is compiled for
  view_,                              \* [created, browser]: view_ and view_->browser()
  live,                               \* the WebContents that exist
  associated_web_contents_,           \* WebContents* or NULL
  associated_web_contents_observer_,  \* scoped_ptr: [present, web_contents]
  observers,                          \* per WebContents: observers of this host in its list
  closed,                             \* ExtensionHost::Close() has been called
  documents,                          \* document-available callbacks received
  injected,                           \* RenderViewHost::InsertCSS calls made
  last                                \* the last operation, its inputs, result and calls

vars ==
  <<host_type, toolkit, view_, live, associated_web_contents_,
    associated_web_contents_observer_, observers, closed, documents, injected,
    last>>

\* ------------------------------------------------- the associated contents
NoObserver == [present |-> FALSE, web_contents |-> NULL]

\* The three fields SetAssociatedWebContents and the observer work on.
Host ==
  [associated |-> associated_web_contents_,
   observer |-> associated_web_contents_observer_,
   observers |-> observers]

\* The three fields right after construction.
NoHost ==
  [associated |-> NULL, observer |-> NoObserver, observers |-> [c \in Contents |-> 0]]

\* WebContentsObserver(web_contents): the constructor adds the observer to the
\* observer list of web_contents.
AssociatedWebContentsObserver(h, wc) ==
  [h EXCEPT !.observers[wc] = @ + 1]

\* ~WebContentsObserver of the observer the scoped_ptr held: it leaves the
\* observer list of the WebContents it still observes.
DeleteObserver(h, old) ==
  IF old.present /\ old.web_contents # NULL
    THEN [h EXCEPT !.observers[old.web_contents] = @ - 1]
    ELSE h

\* A plausible slip: the previous observer is released, not deleted.
SetAssociatedWebContents_LeakOld(h, wc) ==
  IF wc # NULL
    THEN [AssociatedWebContentsObserver(h, wc) EXCEPT
            !.associated = wc,
            !.observer = [present |-> TRUE, web_contents |-> wc]]
    ELSE [DeleteObserver(h, h.observer) EXCEPT
            !.associated = NULL, !.observer = NoObserver]

\* A plausible slip: clearing the reference keeps the observer.
SetAssociatedWebContents_KeepObserver(h, wc) ==
  IF wc # NULL
    THEN [DeleteObserver(AssociatedWebContentsObserver(h, wc), h.observer) EXCEPT
            !.associated = wc,
            !.observer = [present |-> TRUE, web_contents |-> wc]]
    ELSE [h EXCEPT !.associated = NULL]

\* ExtensionViewHost::SetAssociatedWebContents.  scoped_ptr::reset(p) takes the
\* new observer (already constructed) and then deletes the old one.
SetAssociatedWebContents(h, wc) ==
  IF wc # NULL
    THEN [DeleteObserver(AssociatedWebContentsObserver(h, wc), h.observer) EXCEPT
            !.associated = wc,
            !.observer = [present |-> TRUE, web_contents |-> wc]]
    ELSE [DeleteObserver(h, h.observer) EXCEPT
            !.associated = NULL, !.observer = NoObserver]

\* A plausible slip: the destruction callback does nothing.
WebContentsDestroyed_Ignore(h, wc) == h

\* AssociatedWebContentsObserver::WebContentsDestroyed.
WebContentsDestroyed(h, wc) == SetAssociatedWebContents(h, NULL)

\* ~WebContents: every observer in the list is removed from it, forgets its
\* web_contents and gets WebContentsDestroyed; without observers of this host
\* nothing is called.
NotifyDestroyed(h, wc) ==
  IF h.observers[wc] = 0
    THEN h
    ELSE WebContentsDestroyed(
           [h EXCEPT !.observers[wc] = 0,
                     !.observer = IF @.present /\ @.web_contents = wc
                                    THEN [present |-> TRUE, web_contents |-> NULL]
                                    ELSE @],
           wc)

GetAssociatedWebContents == associated_web_contents_

\* A plausible slip: every host kind falls back to its own contents.
GetVisibleWebContents_AnyKind ==
  IF associated_web_contents_ # NULL
    THEN associated_web_contents_
    ELSE host_contents

\* ExtensionViewHost::GetVisibleWebContents.
GetVisibleWebContents ==
  IF associated_web_contents_ # NULL
    THEN associated_web_contents_
    ELSE IF host_type = VIEW_TYPE_EXTENSION_POPUP
           THEN host_contents
           ELSE NULL

\* ------------------------------------------------------------ the view
NoView == [created |-> FALSE, browser |-> FALSE]
\* view_->browser() is not NULL.
HasBrowser == view_.browser

\* --------------------------------------------------------- keyboard events
\* event.type == RawKeyDown && event.windowsKeyCode == ui::VKEY_ESCAPE.
IsEscapeRawKeyDown(event) ==
  event.type = "RawKeyDown" /\ event.windowsKeyCode = VKEY_ESCAPE

\* A plausible slip: no else, the view gets the event as well.
UnhandledKeyboardEvent_Both(event) ==
  (IF HasBrowser THEN <<"Browser::HandleKeyboardEvent">> ELSE << >>)
    \o (IF toolkit = "TOOLKIT_VIEWS"
          THEN <<"ExtensionView::HandleKeyboardEvent">>
          ELSE << >>)

\* ExtensionViewHost::UnhandledKeyboardEvent: the calls it makes.
UnhandledKeyboardEvent(event) ==
  IF HasBrowser
    THEN <<"Browser::HandleKeyboardEvent">>
    ELSE IF toolkit = "TOOLKIT_VIEWS"
           THEN <<"ExtensionView::HandleKeyboardEvent">>
           ELSE << >>

\* A plausible slip: the popup's Escape is handed to the browser like any key.
PreHandleKeyboardEvent_NoEscape(event, browserPre) ==
  IF HasBrowser
    THEN [consumed |-> browserPre.consumed, shortcut |-> browserPre.shortcut,
          calls |-> <<"Browser::PreHandleKeyboardEvent">>]
    ELSE [consumed |-> FALSE, shortcut |-> FALSE, calls |-> << >>]

\* A plausible slip: the browser is asked but its answer is dropped.
PreHandleKeyboardEvent_DropAnswer(event, browserPre) ==
  IF host_type = VIEW_TYPE_EXTENSION_POPUP /\ IsEscapeRawKeyDown(event)
    THEN [consumed |-> FALSE, shortcut |-> TRUE, calls |-> << >>]
    ELSE IF HasBrowser
           THEN [consumed |-> FALSE, shortcut |-> FALSE,
                 calls |-> <<"Browser::PreHandleKeyboardEvent">>]
           ELSE [consumed |-> FALSE, shortcut |-> FALSE, calls |-> << >>]

\* ExtensionViewHost::PreHandleKeyboardEvent: the value returned, the value
\* left in *is_keyboard_shortcut and the calls made.  browserPre is what
\* Browser::PreHandleKeyboardEvent answers for this event.
PreHandleKeyboardEvent(event, browserPre) ==
  IF host_type = VIEW_TYPE_EXTENSION_POPUP /\ IsEscapeRawKeyDown(event)
    THEN [consumed |-> FALSE, shortcut |-> TRUE, calls |-> << >>]
    ELSE IF HasBrowser
           THEN [consumed |-> browserPre.consumed, shortcut |-> browserPre.shortcut,
                 calls |-> <<"Browser::PreHandleKeyboardEvent">>]
           ELSE [consumed |-> FALSE, shortcut |-> FALSE, calls |-> << >>]

\* A plausible slip: Escape closes a host of any kind.
HandleKeyboardEvent_AnyKind(event) ==
  IF IsEscapeRawKeyDown(event)
    THEN <<"Close">>
    ELSE <<"UnhandledKeyboardEvent">> \o UnhandledKeyboardEvent(event)

\* ExtensionViewHost::HandleKeyboardEvent: the calls it makes.
HandleKeyboardEvent(event) ==
  IF host_type = VIEW_TYPE_EXTENSION_POPUP /\ IsEscapeRawKeyDown(event)
    THEN <<"Close">>
    ELSE <<"UnhandledKeyboardEvent">> \o UnhandledKeyboardEvent(event)

\* ------------------------------------------------------------- navigation
\* The dispositions of the switch's whitelist.
AllowedDispositions ==
  {"SINGLETON_TAB", "NEW_FOREGROUND_TAB", "NEW_BACKGROUND_TAB", "NEW_POPUP",
   "NEW_WINDOW", "SAVE_TO_DISK", "OFF_THE_RECORD"}

\* A plausible slip: CURRENT_TAB falls into the whitelist.
OpenURLFromTab_CurrentTab(disposition, browserResult) ==
  IF disposition \in AllowedDispositions \cup {"CURRENT_TAB"} /\ HasBrowser
    THEN [result |-> browserResult, calls |-> <<"Browser::OpenURL">>]
    ELSE [result |-> NULL, calls |-> << >>]

\* ExtensionViewHost::OpenURLFromTab: the value returned and the calls made.
\* browserResult is what Browser::OpenURL returns for params.
OpenURLFromTab(disposition, browserResult) ==
  IF disposition \in AllowedDispositions
    THEN IF HasBrowser
           THEN [result |-> browserResult, calls |-> <<"Browser::OpenURL">>]
           ELSE [result |-> NULL, calls |-> << >>]
    ELSE [result |-> NULL, calls |-> << >>]

\* ------------------------------------------------------ document available
\* ExtensionViewHost::InsertInfobarCSS: the calls it makes.
InsertInfobarCSS == <<"RenderViewHost::InsertCSS">>

\* A plausible slip: the style sheet goes into every kind but the infobar.
OnDocumentAvailable_NotInfobar ==
  IF host_type # VIEW_TYPE_EXTENSION_INFOBAR THEN InsertInfobarCSS ELSE << >>

\* ExtensionViewHost::OnDocumentAvailable: the calls it makes.
OnDocumentAvailable ==
  IF host_type = VIEW_TYPE_EXTENSION_INFOBAR THEN InsertInfobarCSS ELSE << >>

\* ------------------------------------------------------- other operations
\* ExtensionViewHost::OnDidStopLoading: the calls it makes.
OnDidStopLoading ==
  IF toolkit \in {"TOOLKIT_VIEWS", "OS_MACOSX"}
    THEN <<"ExtensionView::DidStopLoading">>
    ELSE << >>

IsBackgroundPage == FALSE

\* ExtensionViewHost::GetExtensionWindowController returns a controller.
GetExtensionWindowController == HasBrowser

\* ExtensionViewHost::RenderViewCreated: the calls it makes.
RenderViewCreated ==
  <<"ExtensionHost::RenderViewCreated", "ExtensionView::RenderViewCreated">>
    \o (IF GetExtensionWindowController
          THEN <<"RenderViewHost::Send">>
          ELSE << >>)

\* ExtensionViewHost::ResizeDueToAutoResize: the calls it makes.
ResizeDueToAutoResize == <<"ExtensionView::ResizeDueToAutoResize">>

\* ExtensionViewHost::GetHostView: the calls it makes.
GetHostView == <<"ExtensionView::native_view">>

\* Number of times call c occurs in the sequence calls.
Count(calls, c) == Cardinality({i \in DOMAIN calls : calls[i] = c})

\* ------------------------------------------------------------- the actions
\* The record of an operation before its inputs and outputs are filled in.
Op(name) ==
  [op |-> name, wc |-> NULL, disposition |-> "none", event |-> NoEvent,
   browserPre |-> NoBrowserPre, browserResult |-> NULL,
   result |-> NULL, consumed |-> FALSE, shortcut |-> FALSE, calls |-> << >>,
   follows |-> FALSE, was |-> "none", before |-> NoHost]

\* The calls of an operation take effect: Close() marks the host closed and
\* every InsertCSS is one more injection.
Effects(calls) ==
  /\ closed' = (closed \/ Count(calls, "Close") > 0)
  /\ injected' = injected + Count(calls, "RenderViewHost::InsertCSS")

\* The constructor: no associated contents, no view yet.  The WebContents the
\* host may be associated with exist.
Init ==
  /\ host_type \in ViewTypes
  /\ toolkit \in Toolkits
  /\ view_ = NoView
  /\ live = Contents
  /\ associated_web_contents_ = NULL
  /\ associated_web_contents_observer_ = NoObserver
  /\ observers = [c \in Contents |-> 0]
  /\ closed = FALSE
  /\ documents = 0
  /\ injected = 0
  /\ last = Op("ExtensionViewHost")

\* ExtensionViewHost::CreateView(browser), called once after construction.
CreateView ==
  \E browser \in BOOLEAN :
    /\ ~view_.created
    /\ view_' = [created |-> TRUE, browser |-> browser]
    /\ last' = Op("CreateView")
    /\ UNCHANGED <<host_type, toolkit, live, associated_web_contents_,
                   associated_web_contents_observer_, observers, closed, documents,
                   injected>>

\* A WebContents comes into being; its observer list is empty.
NewWebContents ==
  \E wc \in Contents \ live :
    /\ live' = live \cup {wc}
    /\ last' = [Op("WebContents") EXCEPT !.wc = wc]
    /\ UNCHANGED <<host_type, toolkit, view_, associated_web_contents_,
                   associated_web_contents_observer_, observers, closed, documents,
                   injected>>

\* A call of SetAssociatedWebContents with an existing WebContents or NULL.
SetAssociatedWebContentsCall ==
  \E wc \in live \cup {NULL} :
    LET h == SetAssociatedWebContents(Host, wc)
    IN /\ associated_web_contents_' = h.associated
       /\ associated_web_contents_observer_' = h.observer
       /\ observers' = h.observers
       /\ last' = [Op("SetAssociatedWebContents") EXCEPT !.wc = wc, !.before = Host]
       /\ UNCHANGED <<host_type, toolkit, view_, live, closed, documents, injected>>

\* What wc is to the host: its associated contents, the contents whose
\* association the preceding call cleared or replaced, or another one.
Was(wc) ==
  IF associated_web_contents_ = wc
    THEN "associated"
    ELSE IF last.op = "SetAssociatedWebContents" /\ last.before.associated = wc
           THEN IF last.wc = NULL THEN "cleared" ELSE "replaced"
           ELSE "other"

\* A WebContents is destroyed and notifies the observers in its list.
DestroyWebContents ==
  \E wc \in live :
    LET h == NotifyDestroyed(Host, wc)
    IN /\ live' = live \ {wc}
       /\ associated_web_contents_' = h.associated
       /\ associated_web_contents_observer_' = h.observer
       /\ observers' = h.observers
       /\ last' = [Op("~WebContents") EXCEPT
                     !.wc = wc,
                     !.before = Host,
                     !.was = Was(wc),
                     !.calls = IF observers[wc] > 0
                                 THEN <<"WebContentsDestroyed">>
                                 ELSE << >>]
       /\ UNCHANGED <<host_type, toolkit, view_, closed, documents, injected>>

GetAssociatedWebContentsCall ==
  /\ last' = [Op("GetAssociatedWebContents") EXCEPT !.result = GetAssociatedWebContents]
  /\ UNCHANGED <<host_type, toolkit, view_, live, associated_web_contents_,
                 associated_web_contents_observer_, observers, closed, documents,
                 injected>>

GetVisibleWebContentsCall ==
  /\ last' = [Op("GetVisibleWebContents") EXCEPT !.result = GetVisibleWebContents]
  /\ UNCHANGED <<host_type, toolkit, view_, live, associated_web_contents_,
                 associated_web_contents_observer_, observers, closed, documents,
                 injected>>

\* The callbacks below come from the contents shown in the view: they need it.
UnhandledKeyboardEventCall ==
  \E event \in Events :
    LET calls == UnhandledKeyboardEvent(event)
    IN /\ view_.created
       /\ Effects(calls)
       /\ last' = [Op("UnhandledKeyboardEvent") EXCEPT !.event = event, !.calls = calls]
       /\ UNCHANGED <<host_type, toolkit, view_, live, associated_web_contents_,
                      associated_web_contents_observer_, observers, documents>>

PreHandleKeyboardEventCall ==
  \E event \in Events,
     browserPre \in IF HasBrowser THEN BrowserPreResults ELSE {NoBrowserPre} :
    LET r == PreHandleKeyboardEvent(event, browserPre)
    IN /\ view_.created
       /\ Effects(r.calls)
       /\ last' = [Op("PreHandleKeyboardEvent") EXCEPT
                     !.event = event, !.browserPre = browserPre,
                     !.consumed = r.consumed, !.shortcut = r.shortcut,
                     !.calls = r.calls]
       /\ UNCHANGED <<host_type, toolkit, view_, live, associated_web_contents_,
                      associated_web_contents_observer_, observers, documents>>

HandleKeyboardEventCall ==
  \E event \in Events :
    LET calls == HandleKeyboardEvent(event)
    IN /\ view_.created
       /\ Effects(calls)
       /\ last' = [Op("HandleKeyboardEvent") EXCEPT
                     !.event = event, !.calls = calls,
                     !.follows = /\ last.op = "PreHandleKeyboardEvent"
                                 /\ last.event = event
                                 /\ ~last.consumed]
       /\ UNCHANGED <<host_type, toolkit, view_, live, associated_web_contents_,
                      associated_web_contents_observer_, observers, documents>>

OpenURLFromTabCall ==
  \E disposition \in Dispositions,
     browserResult \in IF HasBrowser THEN BrowserOpenResults ELSE {NULL} :
    LET r == OpenURLFromTab(disposition, browserResult)
    IN /\ view_.created
       /\ Effects(r.calls)
       /\ last' = [Op("OpenURLFromTab") EXCEPT
                     !.disposition = disposition, !.browserResult = browserResult,
                     !.result = r.result, !.calls = r.calls]
       /\ UNCHANGED <<host_type, toolkit, view_, live, associated_web_contents_,
                      associated_web_contents_observer_, observers, documents>>

OnDocumentAvailableCall ==
  LET calls == OnDocumentAvailable
  IN /\ view_.created
     /\ documents < MaxDocuments
     /\ documents' = documents + 1
     /\ Effects(calls)
     /\ last' = [Op("OnDocumentAvailable") EXCEPT !.calls = calls]
     /\ UNCHANGED <<host_type, toolkit, view_, live, associated_web_contents_,
                    associated_web_contents_observer_, observers>>

OnDidStopLoadingCall ==
  LET calls == OnDidStopLoading
  IN /\ view_.created
     /\ Effects(calls)
     /\ last' = [Op("OnDidStopLoading") EXCEPT !.calls = calls]
     /\ UNCHANGED <<host_type, toolkit, view_, live, associated_web_contents_,
                    associated_web_contents_observer_, observers, documents>>

RenderViewCreatedCall ==
  LET calls == RenderViewCreated
  IN /\ view_.created
     /\ Effects(calls)
     /\ last' = [Op("RenderViewCreated") EXCEPT !.calls = calls]
     /\ UNCHANGED <<host_type, toolkit, view_, live, associated_web_contents_,
                    associated_web_contents_observer_, observers, documents>>

ResizeDueToAutoResizeCall ==
  LET calls == ResizeDueToAutoResize
  IN /\ view_.created
     /\ Effects(calls)
     /\ last' = [Op("ResizeDueToAutoResize") EXCEPT !.calls = calls]
     /\ UNCHANGED <<host_type, toolkit, view_, live, associated_web_contents_,
                    associated_web_contents_observer_, observers, documents>>

GetHostViewCall ==
  LET calls == GetHostView
  IN /\ view_.created
     /\ Effects(calls)
     /\ last' = [Op("GetHostView") EXCEPT !.calls = calls]
     /\ UNCHANGED <<host_type, toolkit, view_, live, associated_web_contents_,
                    associated_web_contents_observer_, observers, documents>>

GetExtensionWindowControllerCall ==
  /\ view_.created
  /\ last' = [Op("GetExtensionWindowController") EXCEPT
                !.consumed = GetExtensionWindowController]
  /\ UNCHANGED <<host_type, toolkit, view_, live, associated_web_contents_,
                 associated_web_contents_observer_, observers, closed, documents,
                 injected>>

IsBackgroundPageCall ==
  /\ view_.created
  /\ last' = [Op("IsBackgroundPage") EXCEPT !.consumed = IsBackgroundPage]
  /\ UNCHANGED <<host_type, toolkit, view_, live, associated_web_contents_,
                 associated_web_contents_observer_, observers, closed, documents,
                 injected>>

\* The methods of ExtensionViewHost.
Next ==
  \/ CreateView
  \/ SetAssociatedWebContentsCall
  \/ GetAssociatedWebContentsCall
  \/ GetVisibleWebContentsCall
  \/ UnhandledKeyboardEventCall
  \/ PreHandleKeyboardEventCall
  \/ HandleKeyboardEventCall
  \/ OpenURLFromTabCall
  \/ OnDocumentAvailableCall
  \/ OnDidStopLoadingCall
  \/ RenderViewCreatedCall
  \/ ResizeDueToAutoResizeCall
  \/ GetHostViewCall
  \/ GetExtensionWindowControllerCall
  \/ IsBackgroundPageCall

\* The associated contents: the methods that set and read it, and the
\* WebContents coming and going.
NextAssociation ==
  \/ NewWebContents
  \/ DestroyWebContents
  \/ SetAssociatedWebContentsCall
  \/ GetAssociatedWebContentsCall
  \/ GetVisibleWebContentsCall

Spec == Init /\ [][Next]_vars
SpecAssociation == Init /\ [][NextAssociation]_vars

\* ---------------------------------------------------------------- claims
\* The allow-list of dispositions as the specification states it.
SpecAllowList ==
  {"SINGLETON_TAB", "NEW_FOREGROUND_TAB", "NEW_BACKGROUND_TAB", "NEW_POPUP",
   "NEW_WINDOW", "SAVE_TO_DISK", "OFF_THE_RECORD"}
\* An Escape raw-key-down event.
EscapeRawKeyDown == [type |-> "RawKeyDown", windowsKeyCode |-> VKEY_ESCAPE]
IsPopup == host_type = VIEW_TYPE_EXTENSION_POPUP
IsInfobar == host_type = VIEW_TYPE_EXTENSION_INFOBAR

\* C1: OpenURLFromTab calls the browser's OpenURL, once, and returns its
\* result exactly when the disposition is allow-listed and a parent browser is
\* bound; in every other case it returns none and calls nothing.
C1_OpenURLDelegation ==
  last.op = "OpenURLFromTab" =>
    LET delegated == Count(last.calls, "Browser::OpenURL") > 0
    IN /\ delegated <=> (last.disposition \in SpecAllowList /\ HasBrowser)
       /\ delegated =>
            /\ last.calls = <<"Browser::OpenURL">>
            /\ last.result = last.browserResult
       /\ ~delegated => (last.result = NULL /\ last.calls = << >>)

\* An allow-listed request on a host with a browser returned the browser's tab.
C1_Witness ==
  /\ last.op = "OpenURLFromTab"
  /\ last.disposition = "NEW_POPUP"
  /\ HasBrowser
  /\ last.result = browser_tab

\* C2: the host never refers to a destroyed WebContents; when the associated
\* contents is destroyed without having been cleared, the destruction callback
\* runs and get-associated-content returns none afterwards.
C2_NoDanglingReference ==
  /\ associated_web_contents_ # NULL => associated_web_contents_ \in live
  /\ (last.op = "~WebContents" /\ last.was = "associated") =>
       /\ last.calls = <<"WebContentsDestroyed">>
       /\ GetAssociatedWebContents = NULL

\* The associated contents has just been destroyed.
C2_Witness ==
  /\ last.op = "~WebContents"
  /\ last.was = "associated"
  /\ last.before.associated = last.wc
  /\ last.wc \notin live
  /\ associated_web_contents_ = NULL

\* C3: setting none clears the reference and removes the observer; setting
\* none when the reference is already none changes nothing; the destruction of
\* a contents whose association was cleared makes no callback and leaves the
\* reference (none), the observer and the observer lists as they were.
C3_ClearStopsObservation ==
  /\ (last.op = "SetAssociatedWebContents" /\ last.wc = NULL) =>
       /\ associated_web_contents_ = NULL
       /\ associated_web_contents_observer_ = NoObserver
       /\ \A c \in Contents : observers[c] = 0
  /\ (/\ last.op = "SetAssociatedWebContents"
      /\ last.wc = NULL
      /\ last.before.associated = NULL) => Host = last.before
  /\ (last.op = "~WebContents" /\ last.was = "cleared") =>
       /\ last.calls = << >>
       /\ Host = last.before
       /\ associated_web_contents_ = NULL

\* A contents that was associated and then cleared has just been destroyed.
C3_Witness ==
  /\ last.op = "~WebContents"
  /\ last.was = "cleared"
  /\ last.calls = << >>
  /\ associated_web_contents_ = NULL

\* C4: the host has at most one destruction observer; it has one exactly when
\* the reference is not none, and that one observes the referenced contents.
\* The destruction of any other contents leaves the reference as it was, the
\* destruction of the referenced contents clears it.
C4_SingleObserver ==
  /\ \A c, d \in Contents :
       /\ observers[c] <= 1
       /\ c # d => observers[c] + observers[d] <= 1
  /\ associated_web_contents_observer_.present <=> associated_web_contents_ # NULL
  /\ associated_web_contents_observer_.web_contents = associated_web_contents_
  /\ \A c \in Contents : observers[c] > 0 <=> c = associated_web_contents_
  /\ last.op = "~WebContents" =>
       associated_web_contents_ =
         IF last.wc = last.before.associated THEN NULL ELSE last.before.associated

\* X was replaced by Y, X has just been destroyed and the reference is still Y.
C4_Witness ==
  /\ last.op = "~WebContents"
  /\ last.was = "replaced"
  /\ associated_web_contents_ \in Contents \ {last.wc}
  /\ associated_web_contents_ = last.before.associated

\* C5: get-visible-content returns the associated contents when one is set,
\* whatever the host kind; with none set it returns the host's own contents on
\* a popup and none on a dialog or an infobar.  After the associated contents
\* of a popup is destroyed, the visible contents is the host's own.
C5_VisibleContents ==
  /\ last.op = "GetVisibleWebContents" =>
       /\ associated_web_contents_ # NULL => last.result = associated_web_contents_
       /\ (associated_web_contents_ = NULL /\ IsPopup) => last.result = host_contents
       /\ (associated_web_contents_ = NULL /\ ~IsPopup) => last.result = NULL
  /\ (last.op = "~WebContents" /\ last.was = "associated" /\ IsPopup) =>
       GetVisibleWebContents = host_contents

\* A dialog with associated contents answered with that contents.
C5_Witness ==
  /\ last.op = "GetVisibleWebContents"
  /\ host_type = VIEW_TYPE_EXTENSION_DIALOG
  /\ last.result \in Contents

\* C6: on a popup, pre-handling an Escape raw-key-down reports is-shortcut
\* true and consumed false and calls nothing (no close, no browser
\* pre-handler); handling that event closes the host and forwards nothing.
C6_EscapeTwoPhase ==
  /\ (last.op = "PreHandleKeyboardEvent" /\ IsPopup /\ last.event = EscapeRawKeyDown) =>
       /\ last.shortcut
       /\ ~last.consumed
       /\ last.calls = << >>
  /\ (last.op = "HandleKeyboardEvent" /\ IsPopup /\ last.event = EscapeRawKeyDown) =>
       /\ closed
       /\ last.calls = <<"Close">>

\* Escape was pre-handled on a popup with a browser and then handled.
C6_Witness ==
  /\ last.op = "HandleKeyboardEvent"
  /\ last.follows
  /\ IsPopup
  /\ HasBrowser
  /\ last.event = EscapeRawKeyDown
  /\ closed

\* C7: on an infobar every document-available callback injects the style
\* sheet once, so n callbacks make n injections; on a dialog or a popup the
\* callback calls nothing and nothing is ever injected.
C7_InfobarCSS ==
  /\ IsInfobar => injected = documents
  /\ ~IsInfobar => injected = 0
  /\ last.op = "OnDocumentAvailable" =>
       last.calls = IF IsInfobar THEN <<"RenderViewHost::InsertCSS">> ELSE << >>

\* An infobar has had two documents and two injections.
C7_Witness ==
  /\ IsInfobar
  /\ last.op = "OnDocumentAvailable"
  /\ documents = 2
  /\ injected = 2

\* C8: an unhandled keyboard event has at most one recipient: the browser's
\* handler and never the view when a browser exists; without a browser the
\* view on the views toolkit and nobody on the other toolkits.
C8_UnhandledSingleRecipient ==
  Count(last.calls, "UnhandledKeyboardEvent") > 0 \/ last.op = "UnhandledKeyboardEvent" =>
    LET toBrowser == Count(last.calls, "Browser::HandleKeyboardEvent")
        toView == Count(last.calls, "ExtensionView::HandleKeyboardEvent")
    IN /\ toBrowser + toView <= 1
       /\ HasBrowser => (toBrowser = 1 /\ toView = 0)
       /\ ~HasBrowser =>
            /\ toBrowser = 0
            /\ toView = IF toolkit = "TOOLKIT_VIEWS" THEN 1 ELSE 0

\* Without a browser, on the views toolkit, the view got the event.
C8_Witness ==
  /\ last.op = "UnhandledKeyboardEvent"
  /\ ~HasBrowser
  /\ toolkit = "TOOLKIT_VIEWS"
  /\ last.calls = <<"ExtensionView::HandleKeyboardEvent">>

\* C9: handle-keyboard-event closes the host only for an Escape raw-key-down
\* on a popup; every other event on every host kind is forwarded once to the
\* unhandled-event handling and does not close; no other operation calls Close.
C9_CloseOnlyOnPopupEscape ==
  /\ last.op = "HandleKeyboardEvent" =>
       IF IsPopup /\ last.event = EscapeRawKeyDown
         THEN Count(last.calls, "Close") = 1
         ELSE /\ Count(last.calls, "Close") = 0
              /\ Count(last.calls, "UnhandledKeyboardEvent") = 1
  /\ last.op # "HandleKeyboardEvent" => Count(last.calls, "Close") = 0
  /\ closed => IsPopup

\* Escape on a dialog: forwarded, not closed.
C9_Witness ==
  /\ last.op = "HandleKeyboardEvent"
  /\ host_type = VIEW_TYPE_EXTENSION_DIALOG
  /\ last.event = EscapeRawKeyDown
  /\ Count(last.calls, "UnhandledKeyboardEvent") = 1
  /\ ~closed

\* The result of pre-handling an event other than a popup's Escape.
C10_Delegation ==
  (last.op = "PreHandleKeyboardEvent" /\ ~(IsPopup /\ last.event = EscapeRawKeyDown)) =>
    /\ HasBrowser =>
         /\ last.calls = <<"Browser::PreHandleKeyboardEvent">>
         /\ last.consumed = last.browserPre.consumed
         /\ last.shortcut = last.browserPre.shortcut
    /\ ~HasBrowser => (~last.consumed /\ ~last.shortcut /\ last.calls = << >>)

\* C10 as stated: the delegation above, and pre-handle never reports
\* consumed=true and never closes the host.
C10_Original ==
  /\ C10_Delegation
  /\ last.op = "PreHandleKeyboardEvent" =>
       (~last.consumed /\ Count(last.calls, "Close") = 0)

\* C10 as amended: the delegation above; pre-handle reports consumed=true
\* only when the browser's pre-handler, which it asked, reported it; it never
\* closes the host.
C10_PreHandleDelegation ==
  /\ C10_Delegation
  /\ last.op = "PreHandleKeyboardEvent" =>
       /\ last.consumed =>
            /\ HasBrowser
            /\ last.browserPre.consumed
            /\ ~(IsPopup /\ last.event = EscapeRawKeyDown)
       /\ Count(last.calls, "Close") = 0

\* The browser's pre-handler consumed a key and pre-handle reported it.
C10_Witness ==
  /\ last.op = "PreHandleKeyboardEvent"
  /\ HasBrowser
  /\ last.event # EscapeRawKeyDown
  /\ last.browserPre.consumed
  /\ last.consumed
====
